---- MODULE Spec2Model ----
(***************************************************************************)
(* The streaming migration pipeline of src/w32023-to-w3up.js:              *)
(*                                                                         *)
(*   source -> UploadToFetchableUploadPart -> Parallel(concurrency,        *)
(*   migratePart) -> CollectMigratedUploadParts -> failure filter ->       *)
(*   InvokeUploadAddForMigratedParts -> merge loop of migrate()            *)
(*                                                                         *)
(* Every stage is a TransformStream with the default queuing strategies    *)
(* (writable high water mark 1, readable high water mark 0); adjacent      *)
(* stages are joined by pipeThrough.  A stage is named by a string; the    *)
(* readable side of stage s feeds the writable side of Down(s).            *)
(***************************************************************************)
EXTENDS Integers, Sequences, FiniteSets, Bags, TLC

\* ---------------------------------------------------------------- bounds
MaxUploads == 2
MaxK == 2
MaxHangUploads == 6
MaxHangK == 3
MaxFlowUploads == 4
MaxFlowK == 2
MaxPutUploads == 1
MaxPutK == 1
MaxAbortUploads == 2
MaxAbortK == 1
MaxCliUploads == 2
MaxIdemUploads == 2
MaxIdemK == 2
MaxOptUploads == 1
MaxOptK == 1
MaxAsmUploads == 1
MaxFetchUploads == 1
MaxCallUploads == 1
MaxMergeUploads == 3
MaxFanUploads == 2
MaxFanK == 2
MaxBodyUploads == 1
MaxTwinUploads == 2
MaxTwinK == 2

\* ------------------------------------------------------------- pipeline
Readables == {"src", "fan", "par", "col", "fil", "bind"}
Piped == {"src", "fan", "par", "col", "fil"}
Stages == {"fan", "par", "col", "fil", "bind"}

Down(s) ==
  CASE s = "src" -> "fan"
    [] s = "fan" -> "par"
    [] s = "par" -> "col"
    [] s = "col" -> "fil"
    [] s = "fil" -> "bind"

NoCause == "NoCause"

VARIABLES
  options,       \* the options migrate() is called with (their concurrency)
  concurrency,   \* const { concurrency = 1 } = options
  source,        \* the uploads the Source will produce, in order
  pulledCount,   \* uploads the Source's pull() has produced
  started,       \* migrate() has wired the pipeline
  wq,            \* stage -> chunks queued on its writable side (at most 1)
  rq,            \* readable -> chunks queued on its readable side
  rr,            \* readable -> number of pending read requests
  rClosed,       \* readable -> close requested
  tasks,         \* migratePart calls in flight inside Parallel
  parBlocked,    \* Parallel's transform awaits a free slot
  bindBusy,      \* an upload/add invocation is in flight
  errored,       \* the result stream is errored
  failures,      \* migrate(): const failures
  queue,         \* migrate(): const queue
  resultsDone,   \* migrate(): let resultsDone
  pc,            \* where the migrate() generator is
  yielded,       \* what migrate() has yielded so far, in order
  partLog,       \* the (upload, part) pairs whose migratePart call failed
  mock,          \* what the mock destination has recorded: store/add receipts, PUTs
  signal,        \* options.signal, and what was under way when it fired
  cli,           \* the migrate-to-w3up process: its flags, output and exit code
  asm            \* what the Assembler has been given, has emitted and holds,
                 \* and what has arrived at the merge loop

vars == <<options, concurrency, source, pulledCount, started, wq, rq, rr, rClosed,
          tasks, parBlocked, bindBusy, errored, failures, queue, resultsDone,
          pc, yielded, partLog, mock, signal, cli, asm>>

\* ------------------------------------------------------------ the Source
PartLists == {<<"pA">>, <<"pA", "pB">>}

\* uploads of one part
OnePartLists == {<<"pA">>}

\* the i-th upload of a source: a W32023Upload with its cid and parts
Upload(i, parts) == [id |-> i, cid |-> i, parts |-> parts]

SourcesOver(lists, maxLen) ==
  UNION { { [i \in 1..n |-> Upload(i, f[i])] : f \in [1..n -> lists] } : n \in 1..maxLen }

Range(seq) == { seq[i] : i \in 1..Len(seq) }

RECURSIVE Reverse(_)
Reverse(seq) == IF seq = <<>> THEN <<>> ELSE Append(Reverse(Tail(seq)), Head(seq))

\* --------------------------------------------- web streams (WHATWG) glue
\* the fields an enqueue on a readable side can change
Cur == [wq |-> wq, rq |-> rq, rr |-> rr, queue |-> queue]

\* an enqueue whose chunk is lost when a read of migrate() takes it
EnqueueLosing(S, s, c) ==
  IF S.rr[s] > 0
    THEN IF s = "bind"
           THEN [S EXCEPT !.rr[s] = @ - 1]
           ELSE [S EXCEPT !.rr[s] = @ - 1, !.wq[Down(s)] = <<c>>]
    ELSE [S EXCEPT !.rq[s] = Append(@, c)]

\* controller.enqueue(c) on the readable side of s: a pending read request
\* takes the chunk (the pipe writes it downstream at once; migrate()'s
\* reader.read().then pushes it on queue), otherwise it is queued.
Enqueue(S, s, c) ==
  IF S.rr[s] > 0
    THEN IF s = "bind"
           THEN [S EXCEPT !.rr[s] = @ - 1, !.queue = Append(@, c)]
           ELSE [S EXCEPT !.rr[s] = @ - 1, !.wq[Down(s)] = <<c>>]
    ELSE [S EXCEPT !.rq[s] = Append(@, c)]

RECURSIVE EnqueueAll(_, _, _)
EnqueueAll(S, s, cs) ==
  IF cs = <<>> THEN S ELSE EnqueueAll(Enqueue(S, s, Head(cs)), s, Tail(cs))

\* the write of the chunk at the head of s's writable queue has finished
WriteDone(S, s) == [S EXCEPT !.wq[s] = <<>>]

Commit(S) == /\ wq' = S.wq
             /\ rq' = S.rq
             /\ rr' = S.rr
             /\ queue' = S.queue

\* a transform that runs on the queued chunk whether or not the readable
\* side is pulled
CanTransformUnpulled(s) == /\ started
                           /\ ~errored
                           /\ wq[s] # <<>>

\* a transform runs on the queued chunk once the readable side is pulled
CanTransform(s) == /\ started
                   /\ ~errored
                   /\ wq[s] # <<>>
                   /\ rr[s] > 0

\* ------------------------------------------------------------------ Init
\* a mock destination that records nothing
NoMock ==
  [recording |-> FALSE, receipts |-> {}, puts |-> EmptyBag,
   stateful |-> FALSE, held |-> {},
   invocations |-> FALSE, fetches |-> {}, storeAdds |-> EmptyBag,
   uploadAdds |-> EmptyBag, calls |-> EmptyBag]

\* a mock destination that records the receipts it issues and the PUT
\* requests it receives
RecordingMock == [NoMock EXCEPT !.recording = TRUE]

\* options without an onStoreAddReceipt
NoCallback == {}

\* an onStoreAddReceipt that throws `unexpected store/add receipt` unless
\* receipt.out.ok.status is one of the expected ones; with nothing expected
\* it never throws
Callback(expected) == {[expected |-> expected]}

\* options that give a concurrency
Given(ks) == {[concurrency |-> {k}, onStoreAddReceipt |-> NoCallback] : k \in ks}

\* options that leave concurrency out
Omitted == [concurrency |-> {}, onStoreAddReceipt |-> NoCallback]

\* options that leave concurrency out and give one of the callbacks
WithCallback(callbacks) ==
  {[Omitted EXCEPT !.onStoreAddReceipt = callback] : callback \in callbacks}

\* `concurrency = 1` in the destructuring of options
ConcurrencyOf(o) ==
  IF o.concurrency = {} THEN 1 ELSE CHOOSE k \in o.concurrency : TRUE

\* migrate(options) has been called and next() has not
InitCalled(sources, os) ==
  /\ options \in os
  /\ concurrency = ConcurrencyOf(options)
  /\ source \in sources
  /\ pulledCount = 0
  /\ started = FALSE
  /\ wq = [s \in Stages |-> <<>>]
  /\ rq = [s \in Readables |-> <<>>]
  /\ rr = [s \in Readables |-> 0]
  /\ rClosed = [s \in Readables |-> FALSE]
  /\ tasks = {}
  /\ parBlocked = FALSE
  /\ bindBusy = FALSE
  /\ errored = FALSE
  /\ failures = <<>>
  /\ queue = <<>>
  /\ resultsDone = FALSE
  /\ pc = "init"
  /\ yielded = <<>>
  /\ partLog = {}

InitPipeline(sources, ks) == InitCalled(sources, Given(ks))

\* a signal that has not fired
NotAborted == [state |-> "none", unstarted |-> {}, inflight |-> {}]

Aborted == signal.state # "none"

\* exit code of a process that has not exited
Running == -1

\* migrate() called as a library: no migrate-to-w3up process around it
NoCli ==
  [main |-> FALSE, log |-> FALSE, run |-> 1, handled |-> 0,
   uploadMigrationFailureCount |-> 0, uploadMigrationSuccessCount |-> 0,
   logFile |-> <<>>, stderr |-> <<>>, stdout |-> <<>>, exitCode |-> Running,
   extracted |-> 0]

\* new Map
EmptyMap == [c \in {} |-> {}]

\* an Assembler nobody watches
NoAsm ==
  [on |-> FALSE, log |-> <<>>, out |-> <<>>, map |-> EmptyMap,
   merging |-> FALSE, failed |-> <<>>, bound |-> <<>>,
   fanning |-> FALSE, fanned |-> <<>>]

\* an Assembler under watch: the part results it is given, in order, what it
\* emits and after which of them, and the map its last call worked on
WatchedAsm == [NoAsm EXCEPT !.on = TRUE]

\* a Fan-out under watch: the FetchableUploadParts it has enqueued, in order
WatchedFan == [NoAsm EXCEPT !.fanning = TRUE]

\* a merge loop under watch: the failures pushed on `failures` and the
\* results the reads of the Binder's stream answered with, each in order
WatchedMerge == [NoAsm EXCEPT !.merging = TRUE]

InitWith(sources, ks) ==
  /\ InitPipeline(sources, ks)
  /\ mock = NoMock
  /\ signal = NotAborted
  /\ cli = NoCli
  /\ asm = NoAsm

Init == InitWith(SourcesOver(PartLists, MaxUploads), 1..MaxK)

\* ------------------------------------------------------------ the Source
\* createEndlessUploads: a ReadableStream with the default strategy (high
\* water mark 1) whose pull() enqueues one upload, or closes at the limit.
SourcePullReady ==
  /\ ~rClosed["src"]
  /\ ~errored
  /\ \/ rr["src"] > 0
     \/ Len(rq["src"]) < 1

SourcePull ==
  /\ SourcePullReady
  /\ IF pulledCount >= Len(source)
       THEN /\ rClosed' = [rClosed EXCEPT !["src"] = TRUE]
            /\ rr' = [rr EXCEPT !["src"] = 0]
            /\ UNCHANGED <<pulledCount, wq, rq, queue>>
       ELSE /\ pulledCount' = pulledCount + 1
            /\ Commit(Enqueue(Cur, "src", source[pulledCount + 1]))
            /\ UNCHANGED rClosed
  /\ UNCHANGED <<cli, asm, options, concurrency, source, mock, signal, partLog, started, tasks, parBlocked, bindBusy,
                 errored, failures, resultsDone, pc, yielded>>

\* --------------------------------------------------------- pipeThrough
\* one step of the pipe from the readable side of s to the writable side
\* of Down(s): once the destination is ready (its queue is below the high
\* water mark) the pipe reads; a queued chunk is written at once, otherwise
\* the read request stays pending and pulls the readable side.
PipeReadReady(s) ==
  /\ started
  /\ ~errored
  /\ wq[Down(s)] = <<>>
  /\ rr[s] = 0
  /\ ~rClosed[Down(s)]
  /\ rq[s] # <<>> \/ ~rClosed[s]

PipeRead(s) ==
  /\ PipeReadReady(s)
  /\ IF rq[s] # <<>>
       THEN /\ wq' = [wq EXCEPT ![Down(s)] = <<Head(rq[s])>>]
            /\ rq' = [rq EXCEPT ![s] = Tail(@)]
            /\ UNCHANGED rr
       ELSE /\ rr' = [rr EXCEPT ![s] = 1]
            /\ UNCHANGED <<wq, rq>>
  /\ UNCHANGED <<cli, asm, options, concurrency, source, mock, signal, partLog, pulledCount, started, rClosed, tasks,
                 parBlocked, bindBusy, errored, failures, queue, resultsDone,
                 pc, yielded>>

\* the readable side of s is closed and drained: the pipe closes the
\* writable side of Down(s), whose flush closes its readable side in turn
\* (Parallel's flush first waits for the calls in flight); read requests
\* pending there answer done.
PipeCloseReady(s) ==
  /\ started
  /\ ~errored
  /\ rClosed[s]
  /\ rq[s] = <<>>
  /\ wq[Down(s)] = <<>>
  /\ ~rClosed[Down(s)]
  /\ Down(s) = "par" => tasks = {}

PipeClose(s) ==
  /\ PipeCloseReady(s)
  /\ rClosed' = [rClosed EXCEPT ![Down(s)] = TRUE]
  /\ IF rq[Down(s)] = <<>>
       THEN /\ rr' = [rr EXCEPT ![Down(s)] = 0]
            /\ resultsDone' = IF Down(s) = "bind" /\ rr["bind"] > 0
                                THEN TRUE ELSE resultsDone
       ELSE UNCHANGED <<rr, resultsDone>>
  /\ UNCHANGED <<cli, asm, options, concurrency, source, mock, signal, partLog, pulledCount, started, wq, rq, tasks,
                 parBlocked, bindBusy, errored, failures, queue, pc, yielded>>

\* ---------------------------------------------------------------- Fan-out
\* a Fan-out that goes through upload.parts from the last to the first
transformUploadToFetchableUploadPartBackwards(upload) ==
  [n \in 1..Len(upload.parts) |->
     [upload |-> upload, part |-> upload.parts[Len(upload.parts) + 1 - n],
      n |-> Len(upload.parts) + 1 - n]]

\* the watch on Fan-out after it has enqueued these parts
Fanned(a, parts) ==
  IF a.fanning THEN [a EXCEPT !.fanned = @ \o parts] ELSE a

\* for (const part of upload.parts) yield { upload, part, fetch }
transformUploadToFetchableUploadPart(upload) ==
  [n \in 1..Len(upload.parts) |-> [upload |-> upload, part |-> upload.parts[n], n |-> n]]

\* UploadToFetchableUploadPart.transform: enqueue every part of the upload
FanOut ==
  /\ CanTransform("fan")
  /\ Commit(WriteDone(
       EnqueueAll(Cur, "fan", transformUploadToFetchableUploadPart(Head(wq["fan"]))),
       "fan"))
  /\ asm' = Fanned(asm, transformUploadToFetchableUploadPart(Head(wq["fan"])))
  /\ UNCHANGED <<cli, options, concurrency, source, mock, signal, partLog, pulledCount, started, rClosed, tasks,
                 parBlocked, bindBusy, errored, failures, resultsDone, pc,
                 yielded>>

\* ------------------------------------------------------ run to completion
\* The steps of the streams are promise reactions (microtasks); an answer of
\* the network is a task of the event loop, which runs only once no promise
\* reaction is left to run.
Quiescent ==
  /\ ~SourcePullReady
  /\ \A s \in Piped : ~PipeReadReady(s) /\ ~PipeCloseReady(s)
  /\ ~CanTransform("fan")
  /\ ~(CanTransform("par") /\ ~parBlocked)
  /\ ~CanTransform("col")
  /\ ~CanTransform("fil")
  /\ ~(CanTransform("bind") /\ ~bindBusy)
  /\ \A t \in tasks : t.pc # "throw"

\* ------------------------------------------------- Parallel + migratePart
\* an answer of the part fetcher: it throws, or it returns a Response with
\* a status and, possibly, a content-length header (a string, here the
\* sequence of its characters)
FetchThrows == [contentLength |-> {}, status |-> 0, threw |-> TRUE]

Response(status, header) ==
  [contentLength |-> header, status |-> status, threw |-> FALSE]

\* headers.get('content-length') of a response without the header: null
NoHeader == {}

Header(chars) == {chars}

\* a 200 response of 100 bytes
Ok100 == Response(200, Header(<<"1", "0", "0">>))

\* what the part fetcher may answer: a thrown error, or a 200 response whose
\* content-length header is absent, "0" or "100"
FetchAnswers ==
  {FetchThrows, Response(200, NoHeader), Response(200, Header(<<"0">>)), Ok100}

DigitValue(c) ==
  CASE c = "0" -> 0 [] c = "1" -> 1 [] c = "2" -> 2 [] c = "3" -> 3
    [] c = "4" -> 4 [] c = "5" -> 5 [] c = "6" -> 6 [] c = "7" -> 7
    [] c = "8" -> 8 [] c = "9" -> 9

IsDigit(c) == c \in {"0", "1", "2", "3", "4", "5", "6", "7", "8", "9"}

\* the string without its leading white space
RECURSIVE TrimStart(_)
TrimStart(chars) ==
  IF chars # <<>> /\ Head(chars) = " " THEN TrimStart(Tail(chars)) ELSE chars

\* the length of the longest prefix made of digits
RECURSIVE DigitsPrefix(_)
DigitsPrefix(chars) ==
  IF chars # <<>> /\ IsDigit(Head(chars)) THEN 1 + DigitsPrefix(Tail(chars)) ELSE 0

\* the value of a string of digits in base 10
RECURSIVE DecimalValue(_)
DecimalValue(digits) ==
  IF digits = <<>>
    THEN 0
    ELSE 10 * DecimalValue(SubSeq(digits, 1, Len(digits) - 1))
           + DigitValue(digits[Len(digits)])

\* parseInt(string, 10): white space is skipped, a sign is read, then the
\* digits up to the first character that is not one; {} stands for NaN
ParseInt(chars) ==
  LET trimmed == TrimStart(chars)
      signed == trimmed # <<>> /\ Head(trimmed) \in {"-", "+"}
      rest == IF signed THEN Tail(trimmed) ELSE trimmed
      n == DigitsPrefix(rest)
      value == DecimalValue(SubSeq(rest, 1, n))
  IN IF n = 0 THEN {}
     ELSE IF signed /\ Head(trimmed) = "-" THEN {0 - value} ELSE {value}

\* carPartToStoreAddNb: the size of the store/add invocation; 0 stands for
\* the thrown `unable to determine carSize`
carPartToStoreAddNb(response) ==
  LET carSizeString == response.contentLength
      carSize == IF carSizeString = NoHeader \/ carSizeString = Header(<<>>)
                   THEN {}
                   ELSE ParseInt(CHOOSE chars \in carSizeString : TRUE)
  IN IF carSize = {} \/ carSize = {0} THEN 0 ELSE CHOOSE size \in carSize : TRUE

\* what invocation.execute(w3up) of store/add may answer: a transport error,
\* an error receipt, or an ok receipt with a status
StoreAddAnswers == {"throw", "error", "done", "upload", "other"}

\* the status of the response to the PUT of the car bytes
PutAnswers == {201, 500}

\* UploadPartMigrationFailure, as made by migratePart for an error receipt
\* and by the catch handler of migrate() for a thrown error
PartFailure(t, cause, receipt) ==
  [upload |-> t.upload, part |-> t.part, cause |-> cause,
   receipt |-> receipt, status |-> "none", copy |-> 0]

\* MigratedUploadOnePart: { ...part, add: { receipt }, copy }
PartSuccess(t, status, copy) ==
  [upload |-> t.upload, part |-> t.part, cause |-> NoCause,
   receipt |-> "ok", status |-> status, copy |-> copy]

\* a test that finds a cause in nothing
HasCauseNever(item) == FALSE

\* 'cause' in item
HasCause(item) == item.cause # NoCause

\* a check of the PUT status that forgets the upper bound
PutOkNoUpperBound(status) == 200 <= status

\* uploadBlockForStoreAddSuccess after the PUT answered: 2xx or throw
PutOk(status) == 200 <= status /\ status < 300

\* migratePart: signal?.throwIfAborted() before the fetch
FirstStep == IF Aborted THEN "throw" ELSE "fetch"

\* a Parallel that waits for a free slot one call too late
ParStartLate ==
  /\ CanTransform("par")
  /\ ~parBlocked
  /\ LET p == Head(wq["par"])
         t == [upload |-> p.upload, part |-> p.part, n |-> p.n, pc |-> FirstStep]
     IN /\ tasks' = tasks \cup {t}
        /\ IF Cardinality(tasks \cup {t}) > concurrency
             THEN /\ parBlocked' = TRUE
                  /\ UNCHANGED wq
             ELSE /\ wq' = [wq EXCEPT !["par"] = <<>>]
                  /\ UNCHANGED parBlocked
  /\ UNCHANGED <<cli, asm, options, concurrency, source, mock, signal, partLog, pulledCount, started, rq, rr, rClosed,
                 bindBusy, errored, failures, queue, resultsDone, pc, yielded>>

\* a Parallel that waits for a free slot one call too early
ParStartEarly ==
  /\ CanTransform("par")
  /\ ~parBlocked
  /\ LET p == Head(wq["par"])
         t == [upload |-> p.upload, part |-> p.part, n |-> p.n, pc |-> FirstStep]
     IN /\ tasks' = tasks \cup {t}
        /\ IF Cardinality(tasks \cup {t}) >= concurrency - 1
             THEN /\ parBlocked' = TRUE
                  /\ UNCHANGED wq
             ELSE /\ wq' = [wq EXCEPT !["par"] = <<>>]
                  /\ UNCHANGED parBlocked
  /\ UNCHANGED <<cli, asm, options, concurrency, source, mock, signal, partLog, pulledCount, started, rq, rr, rClosed,
                 bindBusy, errored, failures, queue, resultsDone, pc, yielded>>

\* new Parallel(concurrency, fn).transform: start fn on the chunk; the write
\* finishes at once while fewer than `concurrency` calls are in flight, and
\* otherwise when one of them settles.
ParStart ==
  /\ CanTransform("par")
  /\ ~parBlocked
  /\ LET p == Head(wq["par"])
         t == [upload |-> p.upload, part |-> p.part, n |-> p.n, pc |-> FirstStep]
     IN /\ tasks' = tasks \cup {t}
        /\ IF Cardinality(tasks \cup {t}) >= concurrency
             THEN /\ parBlocked' = TRUE
                  /\ UNCHANGED wq
             ELSE /\ wq' = [wq EXCEPT !["par"] = <<>>]
                  /\ UNCHANGED parBlocked
  /\ UNCHANGED <<cli, asm, options, concurrency, source, mock, signal, partLog, pulledCount, started, rq, rr, rClosed,
                 bindBusy, errored, failures, queue, resultsDone, pc, yielded>>

\* the call for t settles with result: Parallel enqueues the result and a
\* transform waiting for a free slot finishes its write
TaskReturn(t, result) ==
  /\ tasks' = tasks \ {t}
  /\ partLog' = IF HasCause(result)
                  THEN partLog \cup {[id |-> t.upload.id, part |-> t.part]}
                  ELSE partLog
  /\ parBlocked' = FALSE
  /\ IF errored
       THEN UNCHANGED <<wq, rq, rr, queue>>
       ELSE Commit(IF parBlocked
                     THEN WriteDone(Enqueue(Cur, "par", result), "par")
                     ELSE Enqueue(Cur, "par", result))

TaskStep(t, next) ==
  /\ tasks' = (tasks \ {t}) \cup {[t EXCEPT !.pc = next]}
  /\ UNCHANGED <<wq, rq, rr, queue, parBlocked, partLog>>

\* the mock destination records the store/add invocation it receives: the
\* part it is for and nb.size
LogStoreAdd(m, t, size) ==
  IF m.invocations
    THEN [m EXCEPT !.storeAdds =
            @ (+) SetToBag({[id |-> t.upload.id, n |-> t.n, size |-> size]})]
    ELSE m

\* the part fetcher records the answer it gave for the call
LogFetch(m, t, h) ==
  IF m.invocations
    THEN [m EXCEPT !.fetches = @ \cup {[id |-> t.upload.id, n |-> t.n, response |-> h]}]
    ELSE m

\* Store.add.invoke checks nb against the schema of the capability, which
\* is not part of this repository: for a size below 0 it may throw
InvokeMayThrow(size) == size < 0

\* migratePart: part.fetch answers, then carPartToStoreAddNb, then the
\* store/add invocation is sent
FetchAnswerIn(answers) ==
  /\ Quiescent
  /\ \E t \in tasks : \E h \in answers :
       /\ t.pc = "fetch"
       /\ IF h.threw
            THEN /\ TaskReturn(t, PartFailure(t, "thrown", "none"))
                 /\ mock' = LogFetch(mock, t, h)
            ELSE IF carPartToStoreAddNb(h) = 0
                   THEN /\ TaskReturn(t, PartFailure(t, "thrown", "none"))
                        /\ mock' = LogFetch(mock, t, h)
                   ELSE \/ /\ TaskStep(t, "add")
                           /\ mock' = LogStoreAdd(LogFetch(mock, t, h), t,
                                                   carPartToStoreAddNb(h))
                        \/ /\ InvokeMayThrow(carPartToStoreAddNb(h))
                           /\ TaskReturn(t, PartFailure(t, "thrown", "none"))
                           /\ mock' = LogFetch(mock, t, h)
  /\ UNCHANGED <<cli, asm, options, concurrency, source, signal, pulledCount, started, rClosed, bindBusy,
                 errored, failures, resultsDone, pc, yielded>>

\* the mock destination records the store/add receipt it issued for the call
LogReceipt(m, t, a) ==
  IF m.recording
    THEN [m EXCEPT !.receipts = @ \cup {[id |-> t.upload.id, n |-> t.n, status |-> a]}]
    ELSE m

\* the mock destination records a PUT request of the call
LogPut(m, t) ==
  IF m.recording
    THEN [m EXCEPT !.puts = @ (+) SetToBag({[id |-> t.upload.id, n |-> t.n]})]
    ELSE m

\* an uploadBlockForStoreAddSuccess that sends the bytes for "done" too
NeedsPutAlways(status) == status \in {"done", "upload"}

\* uploadBlockForStoreAddSuccess: switch (storeAddSuccess.status)
NeedsPut(status) == status = "upload"

\* a destination that keeps the parts it was sent answers store/add with
\* status "done" for a part it holds and with "upload" for any other
DestinationAnswers(m, t, a) ==
  m.stateful => a = (IF t.part \in m.held THEN "done" ELSE "upload")

\* such a destination holds a part once its PUT has answered 2xx
Stored(m, t, ok) ==
  IF m.stateful /\ ok THEN [m EXCEPT !.held = @ \cup {t.part}] ELSE m

\* onStoreAddReceipt?.(receipt) throws: the callback reads
\* receipt.out.ok.status, which an error receipt does not have
CallbackThrows(o, a) ==
  /\ o.onStoreAddReceipt # NoCallback
  /\ LET callback == CHOOSE c \in o.onStoreAddReceipt : TRUE
     IN callback.expected # {} /\ a \notin callback.expected

\* onStoreAddReceipt?.(receipt): the caller of migrate() sees the call, with
\* the PUT requests made for the part until then
Called(m, o, t, a) ==
  IF o.onStoreAddReceipt = NoCallback
    THEN m
    ELSE [m EXCEPT !.calls = @ (+) SetToBag({
           [id |-> t.upload.id, n |-> t.n, status |-> a,
            puts |-> CopiesIn([id |-> t.upload.id, n |-> t.n], m.puts),
            threw |-> CallbackThrows(o, a)]})]

\* migratePart: the store/add invocation answers
StoreAddAnswerIn(answers) ==
  /\ Quiescent
  /\ \E t \in tasks : \E a \in answers :
       /\ t.pc = "add"
       /\ DestinationAnswers(mock, t, a)
       /\ LET received == Called(LogReceipt(mock, t, a), options, t, a)
          IN CASE a = "throw"  -> /\ TaskReturn(t, PartFailure(t, "thrown", "none"))
                                  /\ UNCHANGED mock
               [] CallbackThrows(options, a) /\ a # "throw" ->
                    /\ TaskReturn(t, PartFailure(t, "thrown", "none"))
                    /\ mock' = received
               [] OTHER ->
                    CASE a = "error"  -> /\ TaskReturn(t, PartFailure(t, "receipt", "error"))
                                         /\ mock' = received
                      [] a \in {"done", "upload"} ->
                           IF NeedsPut(a)
                             THEN /\ TaskStep(t, "put")
                                  /\ mock' = LogPut(received, t)
                             ELSE /\ TaskReturn(t, PartSuccess(t, a, 0))
                                  /\ mock' = received
                      [] a = "other"  -> /\ TaskReturn(t, PartFailure(t, "thrown", "none"))
                                         /\ mock' = received
  /\ UNCHANGED <<cli, asm, options, concurrency, source, signal, pulledCount, started, rClosed,
                 bindBusy, errored, failures, resultsDone, pc, yielded>>

\* uploadBlockForStoreAddSuccess: the PUT to the presigned url answers
PutAnswer ==
  /\ Quiescent
  /\ \E t \in tasks : \E status \in PutAnswers :
       /\ t.pc = "put"
       /\ mock' = Stored(mock, t, PutOk(status))
       /\ IF PutOk(status)
            THEN TaskReturn(t, PartSuccess(t, "upload", status))
            ELSE TaskReturn(t, PartFailure(t, "thrown", "none"))
  /\ UNCHANGED <<cli, asm, options, concurrency, source, signal, pulledCount, started, rClosed,
                 bindBusy, errored, failures, resultsDone, pc, yielded>>

\* ----------------------------------------------------------- cancellation
\* the uploads of the source of which no part has reached migratePart
Unstarted ==
  { i \in 1..Len(source) : i > pulledCount }
    \cup { u.id : u \in Range(rq["src"]) \cup Range(wq["fan"]) }
    \cup { p.upload.id : p \in { q \in Range(rq["fan"]) : q.n = 1 } }
    \cup { p.upload.id : p \in { q \in Range(wq["par"]) : q.n = 1 /\ ~parBlocked } }

\* what signal.reason may be: the default, a DOMException named AbortError,
\* or a reason of the caller's own
AbortReasons == {"AbortError", "reason"}

\* the caller aborts options.signal: with the default reason, a DOMException
\* named AbortError, or with a reason of its own as in aborter.abort(error)
Abort ==
  /\ Quiescent
  /\ ~Aborted
  /\ pc \notin {"done", "threw"}
  /\ \E r \in AbortReasons :
       signal' = [state |-> r,
                  unstarted |-> Unstarted,
                  inflight |-> { [id |-> t.upload.id, n |-> t.n, pc |-> t.pc] : t \in tasks }]
  /\ UNCHANGED <<cli, asm, options, concurrency, source, mock, pulledCount, started, wq, rq, rr, rClosed,
                 tasks, parBlocked, bindBusy, errored, failures, queue, resultsDone,
                 pc, yielded, partLog>>

\* part.fetch({ signal }) of a fetcher that honours the signal: it rejects
\* with signal.reason
FetchAbort ==
  /\ Quiescent
  /\ Aborted
  /\ \E t \in tasks : t.pc = "fetch" /\ TaskStep(t, "throw")
  /\ UNCHANGED <<cli, asm, options, concurrency, source, mock, signal, pulledCount, started, rClosed,
                 bindBusy, errored, failures, resultsDone, pc, yielded>>

\* the call for t rejects: the catch handler of migrate() has rethrown an
\* AbortError. Parallel either errors its stream or gives up the chunk.
TaskReject(t) ==
  /\ tasks' = tasks \ {t}
  /\ UNCHANGED partLog
  /\ \/ /\ errored' = TRUE
        /\ UNCHANGED <<wq, rq, rr, queue, parBlocked>>
     \/ /\ parBlocked' = FALSE
        /\ Commit(IF parBlocked THEN WriteDone(Cur, "par") ELSE Cur)
        /\ UNCHANGED errored

\* migratePart has thrown signal.reason: the catch handler of migrate()
\* rethrows an AbortError and turns any other error into a part failure
TaskThrow ==
  /\ \E t \in tasks :
       /\ t.pc = "throw"
       /\ IF signal.state = "AbortError"
            THEN TaskReject(t)
            ELSE TaskReturn(t, PartFailure(t, "thrown", "none")) /\ UNCHANGED errored
  /\ UNCHANGED <<cli, asm, options, concurrency, source, mock, signal, pulledCount, started, rClosed,
                 bindBusy, failures, resultsDone, pc, yielded>>

\* -------------------------------------------------------------- Assembler
\* a collectMigratedParts that does not wait for the parts still missing
collectMigratedPartsEager(migratedPart, uploadCidToParts) ==
  LET upload == migratedPart.upload
      partsForUpload == [p \in {migratedPart.part} |-> migratedPart]
      partFailureCount ==
        Cardinality({p \in DOMAIN partsForUpload : HasCause(partsForUpload[p])})
  IN [map |-> uploadCidToParts,
      out |-> <<[type |-> IF partFailureCount > 0 THEN "UploadMigrationFailure"
                                                 ELSE "MigratedUploadParts",
                 upload |-> upload, parts |-> partsForUpload,
                 cause |-> IF partFailureCount > 0 THEN "PartsFailed" ELSE NoCause,
                 failed |-> partFailureCount,
                 total |-> IF partFailureCount > 0 THEN Len(upload.parts) ELSE 0,
                 add |-> "none"]>>]

\* collectMigratedParts(migratedPart, { uploadCidToParts }): the map after
\* the call and what the call yields
collectMigratedParts(migratedPart, uploadCidToParts) ==
  LET upload == migratedPart.upload
      had == IF upload.cid \in DOMAIN uploadCidToParts
               THEN uploadCidToParts[upload.cid] ELSE EmptyMap
      partsForUpload ==
        [p \in DOMAIN had \cup {migratedPart.part} |->
           IF p = migratedPart.part THEN migratedPart ELSE had[p]]
      collectedAllParts ==
        \A i \in 1..Len(upload.parts) : upload.parts[i] \in DOMAIN partsForUpload
      partFailureCount ==
        Cardinality({p \in DOMAIN partsForUpload : HasCause(partsForUpload[p])})
      fail == [type |-> "UploadMigrationFailure", upload |-> upload,
               parts |-> partsForUpload, cause |-> "PartsFailed",
               failed |-> partFailureCount, total |-> Len(upload.parts),
               add |-> "none"]
      allparts == [type |-> "MigratedUploadParts", upload |-> upload,
                   parts |-> partsForUpload, cause |-> NoCause,
                   failed |-> 0, total |-> 0, add |-> "none"]
  IN IF collectedAllParts
       THEN [map |-> [c \in DOMAIN uploadCidToParts \ {upload.cid} |-> uploadCidToParts[c]],
             out |-> IF partFailureCount > 0 THEN <<fail>> ELSE <<allparts>>]
       ELSE [map |-> [c \in DOMAIN uploadCidToParts \cup {upload.cid} |->
                        IF c = upload.cid THEN partsForUpload ELSE uploadCidToParts[c]],
             out |-> <<>>]

\* the options collectMigratedParts gets from CollectMigratedUploadParts
\* .transform: `this`, which has a signal and no uploadCidToParts, so that
\* the parameter default `new Map` applies on every call
CollectOptions == EmptyMap

\* the watch on the Assembler after one call of collectMigratedParts
Watch(a, input, call) ==
  IF a.on
    THEN [a EXCEPT !.log = Append(@, input),
                   !.out = @ \o [j \in 1..Len(call.out) |->
                                   [at |-> Len(a.log) + 1, item |-> call.out[j]]],
                   !.map = call.map]
    ELSE a

\* CollectMigratedUploadParts.transform
Collect ==
  /\ CanTransform("col")
  /\ LET input == Head(wq["col"])
         call == collectMigratedParts(input, CollectOptions)
     IN /\ Commit(WriteDone(EnqueueAll(Cur, "col", call.out), "col"))
        /\ asm' = Watch(asm, input, call)
  /\ UNCHANGED <<cli, options, concurrency, source, mock, signal, partLog, pulledCount, started, rClosed, tasks,
                 parBlocked, bindBusy, errored, failures, resultsDone, pc,
                 yielded>>

\* the watch on the merge loop after failures.push(item)
Failed(a, item) ==
  IF a.merging THEN [a EXCEPT !.failed = Append(@, item)] ELSE a

\* the watch on the merge loop after a read has answered with a result
Bound(a, item) ==
  IF a.merging THEN [a EXCEPT !.bound = Append(@, item)] ELSE a

\* the transform between Assembler and Binder: failures go to `failures`,
\* the rest is passed along
Filter ==
  /\ CanTransform("fil")
  /\ LET item == Head(wq["fil"])
     IN IF HasCause(item)
          THEN /\ failures' = Append(failures, item)
               /\ Commit(WriteDone(Cur, "fil"))
               /\ asm' = Failed(asm, item)
          ELSE /\ Commit(WriteDone(Enqueue(Cur, "fil", item), "fil"))
               /\ UNCHANGED <<failures, asm>>
  /\ UNCHANGED <<cli, options, concurrency, source, mock, signal, partLog, pulledCount, started, rClosed, tasks,
                 parBlocked, bindBusy, errored, resultsDone, pc, yielded>>

\* ----------------------------------------------------------------- Binder
\* what Upload.add.invoke(...).execute(w3up) may answer
UploadAddAnswers == {"ok", "error", "throw"}

UploadMigrationSuccess(item, receipt) ==
  [type |-> "UploadMigrationSuccess", upload |-> item.upload,
   parts |-> item.parts, cause |-> NoCause, failed |-> 0, total |-> 0,
   add |-> receipt]

\* Link.parse(c): the link a CID string denotes; the CIDs of the uploads
\* and of their parts are CIDv1 strings
LinkParse(c) == [hash |-> c, version |-> 1]

\* link.toV1()
ToV1(l) == [l EXCEPT !.version = 1]

\* the part CIDs of a parts list without the repetitions, in order
RECURSIVE Distinct(_)
Distinct(parts) ==
  IF parts = <<>>
    THEN <<>>
    ELSE LET front == Distinct(SubSeq(parts, 1, Len(parts) - 1))
             last == parts[Len(parts)]
         IN IF last \in Range(front) THEN front ELSE Append(front, last)

\* a shards list with one link per distinct part CID
ShardsDistinct(item) ==
  [i \in 1..Len(Distinct(item.upload.parts)) |->
     ToV1(LinkParse(Distinct(item.upload.parts)[i]))]

\* upload.parts.map(c => Link.parse(c).toV1())
ShardsOf(item) ==
  [i \in 1..Len(item.upload.parts) |-> ToV1(LinkParse(item.upload.parts[i]))]

\* the nb of the upload/add invocation: { root, shards }
UploadAddNb(item) ==
  [root |-> LinkParse(item.upload.cid), shards |-> ShardsOf(item)]

\* the mock destination records the upload/add invocation it receives
LogUploadAdd(m, nb) ==
  IF m.invocations THEN [m EXCEPT !.uploadAdds = @ (+) SetToBag({nb})] ELSE m

\* InvokeUploadAddForMigratedParts.transform: the upload/add invocation is sent
BindStart ==
  /\ CanTransform("bind")
  /\ ~bindBusy
  /\ bindBusy' = TRUE
  /\ mock' = LogUploadAdd(mock, UploadAddNb(Head(wq["bind"])))
  /\ UNCHANGED <<cli, asm, options, concurrency, source, signal, partLog, pulledCount, started, wq, rq, rr,
                 rClosed, tasks, parBlocked, errored, failures, queue,
                 resultsDone, pc, yielded>>

\* transformInvokeUploadAddForMigratedUploadParts after the receipt: an ok
\* receipt makes an UploadMigrationSuccess; otherwise it throws, the
\* transform rejects and the stream is errored
BindAnswerIn(answers) ==
  /\ Quiescent
  /\ bindBusy
  /\ ~errored
  /\ bindBusy' = FALSE
  /\ \E a \in answers :
       IF a = "ok"
         THEN /\ Commit(WriteDone(
                   Enqueue(Cur, "bind", UploadMigrationSuccess(Head(wq["bind"]), a)),
                   "bind"))
              /\ asm' = Bound(asm, UploadMigrationSuccess(Head(wq["bind"]), a))
              /\ UNCHANGED errored
         ELSE /\ errored' = TRUE
              /\ UNCHANGED <<wq, rq, rr, queue, asm>>
  /\ UNCHANGED <<cli, options, concurrency, source, mock, signal, partLog, pulledCount, started, rClosed, tasks,
                 parBlocked, failures, resultsDone, pc, yielded>>

\* ------------------------------------------------- migrate(): merge loop
Last(q) == q[Len(q)]
Front(q) == SubSeq(q, 1, Len(q) - 1)

\* a loop that breaks as soon as the results are done, whatever is left on
\* `failures`
LoopTopIgnoringFailures(fs, done) ==
  IF done
    THEN /\ pc' = "done"
         /\ UNCHANGED <<rr, resultsDone>>
    ELSE /\ pc' = "race"
         /\ IF errored
              THEN UNCHANGED <<rr, resultsDone>>
              ELSE IF rClosed["bind"] /\ rq["bind"] = <<>>
                     THEN /\ resultsDone' = TRUE
                          /\ UNCHANGED rr
                     ELSE /\ rr' = [rr EXCEPT !["bind"] = @ + 1]
                          /\ UNCHANGED resultsDone

\* the top of `while (true)` with an empty queue: break when the results are
\* done and nothing is left, otherwise call reader.read() and await the race.
\* A read of the closed stream answers done; a read of the errored stream
\* rejects (RaceReject); any other read stays pending.
LoopTop(fs, done) ==
  IF done /\ fs = <<>>
    THEN /\ pc' = "done"
         /\ UNCHANGED <<rr, resultsDone>>
    ELSE /\ pc' = "race"
         /\ IF errored
              THEN UNCHANGED <<rr, resultsDone>>
              ELSE IF rClosed["bind"] /\ rq["bind"] = <<>>
                     THEN /\ resultsDone' = TRUE
                          /\ UNCHANGED rr
                     ELSE /\ rr' = [rr EXCEPT !["bind"] = @ + 1]
                          /\ UNCHANGED resultsDone

\* a check that lets every concurrency through
ConcurrencyNeverTooLow(c) == FALSE

\* `if (concurrency < 1)`
ConcurrencyTooLow(c) == c < 1

\* the first next(): migrate() throws 'concurrency must be at least 1', or
\* wires the pipeline and enters the loop
GenStart ==
  /\ pc = "init"
  /\ IF ConcurrencyTooLow(concurrency)
       THEN /\ pc' = "threw"
            /\ UNCHANGED <<started, rr, resultsDone>>
       ELSE /\ started' = TRUE
            /\ LoopTop(failures, resultsDone)
  /\ UNCHANGED <<cli, asm, options, concurrency, source, mock, signal, partLog, pulledCount, wq, rq, rClosed, tasks,
                 parBlocked, bindBusy, errored, failures, queue, yielded>>

\* `yield queue.pop()`
YieldPop(q) ==
  /\ yielded' = Append(yielded, Last(q))
  /\ queue' = Front(q)
  /\ pc' = "suspended"

\* a loop that looks at `failures` only once the read of the turn has
\* answered
RaceWatcherAfterRead ==
  /\ pc = "race"
  /\ rr["bind"] = 0
  /\ failures # <<>> \/ queue # <<>>
  /\ failures' = <<>>
  /\ YieldPop(queue \o Reverse(failures))
  /\ UNCHANGED <<cli, asm, options, concurrency, source, mock, signal, partLog, pulledCount, started, wq, rq, rr,
                 rClosed, tasks, parBlocked, bindBusy, errored, resultsDone>>

\* the failure watcher wins the race: it moves the failures to the queue;
\* then the loop yields from the queue
RaceWatcher ==
  /\ pc = "race"
  /\ failures # <<>> \/ queue # <<>>
  /\ failures' = <<>>
  /\ YieldPop(queue \o Reverse(failures))
  /\ UNCHANGED <<cli, asm, options, concurrency, source, mock, signal, partLog, pulledCount, started, wq, rq, rr,
                 rClosed, tasks, parBlocked, bindBusy, errored, resultsDone>>

\* the read of this turn has answered and wins the race
RaceRead ==
  /\ pc = "race"
  /\ ~errored
  /\ rr["bind"] = 0
  /\ IF queue # <<>>
       THEN /\ YieldPop(queue)
            /\ UNCHANGED <<rr, resultsDone>>
       ELSE /\ IF ~resultsDone
                 THEN /\ pc' = "threw"
                      /\ UNCHANGED <<rr, resultsDone>>
                 ELSE LoopTop(failures, resultsDone)
            /\ UNCHANGED <<queue, yielded>>
  /\ UNCHANGED <<cli, asm, options, concurrency, source, mock, signal, partLog, pulledCount, started, wq, rq, rClosed,
                 tasks, parBlocked, bindBusy, errored, failures>>

\* the read of this turn rejects because the stream is errored: the race
\* rejects and migrate() throws
RaceReject ==
  /\ pc = "race"
  /\ errored
  /\ pc' = "threw"
  /\ UNCHANGED <<cli, asm, options, concurrency, source, mock, signal, partLog, pulledCount, started, wq, rq, rr,
                 rClosed, tasks, parBlocked, bindBusy, errored, failures,
                 queue, resultsDone, yielded>>

\* the consumer calls next() after a yield: `while (queue.length) yield
\* queue.pop()` goes on, and then the loop starts over
Resume ==
  /\ pc = "suspended"
  /\ IF queue # <<>>
       THEN /\ YieldPop(queue)
            /\ UNCHANGED <<rr, resultsDone>>
       ELSE /\ LoopTop(failures, resultsDone)
            /\ UNCHANGED <<queue, yielded>>
  /\ UNCHANGED <<cli, asm, options, concurrency, source, mock, signal, partLog, pulledCount, started, wq, rq, rClosed,
                 tasks, parBlocked, bindBusy, errored, failures>>

\* --------------------------------------------- migrate-to-w3up: main()
\* event instanceof UploadMigrationSuccess / UploadMigrationFailure
IsSuccess(o) == o.type = "UploadMigrationSuccess"
IsFailure(o) == o.type = "UploadMigrationFailure"

\* (new W32023UploadSummary(upload)).toJSON(): what of an upload is logged
W32023UploadSummary(upload) == [cid |-> upload.cid, parts |-> upload.parts]

\* JSON.stringify(event, stringifyForMigrationProgressStdio): the toJSON of
\* the event with its upload replaced by the summary
EventLine(event) == [type |-> event.type, upload |-> W32023UploadSummary(event.upload)]

\* a main() that writes every event to stderr
ToStderrAlways(event) == TRUE

\* event instanceof UploadMigrationFailure
ToStderr(event) == IsFailure(event)

\* the body of `for await (const event of migration)`: the event goes to
\* the log file if there is one, a failure goes to stderr and is counted, a
\* success is counted (its console link is written only to an interactive
\* terminal, and stdin is piped here)
MainEvent ==
  /\ cli.main
  /\ cli.exitCode = Running
  /\ pc = "suspended"
  /\ cli.handled < Len(yielded)
  /\ LET event == yielded[cli.handled + 1]
     IN cli' = [cli EXCEPT
          !.handled = @ + 1,
          !.logFile = IF cli.log THEN Append(@, EventLine(event)) ELSE @,
          !.stderr = IF ToStderr(event) THEN Append(@, EventLine(event)) ELSE @,
          !.uploadMigrationFailureCount = IF ToStderr(event) THEN @ + 1 ELSE @,
          !.uploadMigrationSuccessCount = IF ToStderr(event) THEN @ ELSE @ + 1]
  /\ UNCHANGED <<asm, options, concurrency, source, pulledCount, started, wq, rq, rr, rClosed,
                 tasks, parBlocked, bindBusy, errored, failures, queue, resultsDone,
                 pc, yielded, partLog, mock, signal>>

\* the loop of main() asks for the next event once its body has run
MainReady == cli.main /\ cli.handled = Len(yielded)

\* a line of stderr that is no event
Notice(text) == [type |-> text, upload |-> [cid |-> 0, parts |-> <<>>]]

\* after the loop: the summary goes to stderr, and the exit code is 1 when
\* a failure was counted and 0 otherwise
MainExit ==
  /\ cli.main
  /\ cli.exitCode = Running
  /\ pc = "done"
  /\ cli' = [cli EXCEPT
       !.stderr = Append(@, Notice(IF cli.uploadMigrationFailureCount > 0
                                     THEN "failed to migrate"
                                     ELSE "migrated")),
       !.exitCode = IF cli.uploadMigrationFailureCount > 0 THEN 1 ELSE 0]
  /\ UNCHANGED <<asm, options, concurrency, source, pulledCount, started, wq, rq, rr, rClosed,
                 tasks, parBlocked, bindBusy, errored, failures, queue, resultsDone,
                 pc, yielded, partLog, mock, signal>>

\* migrate() throws into the loop: `await main(process.argv)` rejects at the
\* top level of the module, the runtime reports the error on stderr and the
\* process exits with code 1
MainCrash ==
  /\ cli.main
  /\ cli.exitCode = Running
  /\ pc = "threw"
  /\ cli' = [cli EXCEPT !.stderr = Append(@, Notice("uncaught")), !.exitCode = 1]
  /\ UNCHANGED <<asm, options, concurrency, source, pulledCount, started, wq, rq, rr, rClosed,
                 tasks, parBlocked, bindBusy, errored, failures, queue, resultsDone,
                 pc, yielded, partLog, mock, signal>>

\* ------------------------------------------------ migrate-to-w3up log
IsFailureLine(line) == line.type = "UploadMigrationFailure"

\* readUploadsFromUploadMigrationFailuresNdjson, and `migrate-to-w3up log
\* get-uploads-from-failures`: the upload of each UploadMigrationFailure
\* line, in the order of the log
readUploadsFromUploadMigrationFailuresNdjson(log) ==
  LET lines == SelectSeq(log, IsFailureLine)
  IN [i \in 1..Len(lines) |-> lines[i].upload]

\* new W32023UploadsFromNdjson(stdin): one W32023Upload per line
W32023UploadsFromNdjson(lines) ==
  [i \in 1..Len(lines) |-> [id |-> i, cid |-> lines[i].cid, parts |-> lines[i].parts]]

\* a new run of migrate() over uploads: the state before its read loop
Restart(uploads) ==
  /\ source' = uploads
  /\ pulledCount' = 0
  /\ started' = FALSE
  /\ wq' = [s \in Stages |-> <<>>]
  /\ rq' = [s \in Readables |-> <<>>]
  /\ rr' = [s \in Readables |-> 0]
  /\ rClosed' = [s \in Readables |-> FALSE]
  /\ tasks' = {}
  /\ parBlocked' = FALSE
  /\ bindBusy' = FALSE
  /\ errored' = FALSE
  /\ failures' = <<>>
  /\ queue' = <<>>
  /\ resultsDone' = FALSE
  /\ pc' = "init"
  /\ yielded' = <<>>
  /\ partLog' = {}

\* a second migrate-to-w3up process, fed with the uploads extracted from the
\* log file of the first one
Rerun ==
  /\ cli.main
  /\ cli.log
  /\ cli.run = 1
  /\ cli.exitCode # Running
  /\ LET uploads == readUploadsFromUploadMigrationFailuresNdjson(cli.logFile)
     IN /\ uploads # <<>>
        /\ Restart(W32023UploadsFromNdjson(uploads))
        /\ cli' = [NoCli EXCEPT !.main = TRUE, !.log = TRUE, !.run = 2,
                                !.extracted = cli.uploadMigrationFailureCount]
  /\ UNCHANGED <<asm, options, concurrency, mock, signal>>

\* the uploads a run has yielded as UploadMigrationSuccess, in that order
Migrated ==
  LET done == SelectSeq(yielded, IsSuccess)
  IN [i \in 1..Len(done) |-> [id |-> i, cid |-> done[i].upload.cid,
                              parts |-> done[i].upload.parts]]

\* the migration is run again over the uploads it has migrated, against
\* the same destination
Again ==
  /\ cli.run = 1
  /\ pc = "done"
  /\ Migrated # <<>>
  /\ Restart(Migrated)
  /\ cli' = [cli EXCEPT !.run = 2]
  /\ mock' = [mock EXCEPT !.receipts = {}, !.puts = EmptyBag,
                        !.fetches = {}, !.storeAdds = EmptyBag,
                        !.uploadAdds = EmptyBag, !.calls = EmptyBag]
  /\ UNCHANGED <<asm, options, concurrency, signal>>

\* ------------------------------------------------------------------- Next
Next ==
  \/ SourcePull
  \/ \E s \in Piped : PipeRead(s)
  \/ \E s \in Piped : PipeClose(s)
  \/ FanOut
  \/ ParStart
  \/ FetchAnswerIn(FetchAnswers)
  \/ StoreAddAnswerIn(StoreAddAnswers)
  \/ PutAnswer
  \/ Collect
  \/ Filter
  \/ BindStart
  \/ BindAnswerIn(UploadAddAnswers)
  \/ GenStart
  \/ RaceWatcher
  \/ RaceRead
  \/ RaceReject
  \/ Resume

Spec == Init /\ [][Next]_vars

\* ------------------------------------------- a part fetcher that hangs
\* The run of the test 'can migrate with mock servers and concurrency'
\* before the hanging requests are answered: no part fetch answers.
InitHang == InitWith(SourcesOver(PartLists, MaxHangUploads), 1..MaxHangK)

NextHang ==
  \/ SourcePull
  \/ \E s \in Piped : PipeRead(s)
  \/ \E s \in Piped : PipeClose(s)
  \/ FanOut
  \/ ParStart
  \/ GenStart

SpecHang == InitHang /\ [][NextHang]_vars

\* the consumer iterates and the promise reactions of the streams run
FairSpecHang == SpecHang /\ WF_vars(NextHang)

\* ------------------------------------------------ a destination that has
\* every part already: each fetch answers with a content-length, each
\* store/add with status "done", each upload/add with an ok receipt
InitFlow == InitWith(SourcesOver(PartLists, MaxFlowUploads), 1..MaxFlowK)

NextFlow ==
  \/ SourcePull
  \/ \E s \in Piped : PipeRead(s)
  \/ \E s \in Piped : PipeClose(s)
  \/ FanOut
  \/ ParStart
  \/ FetchAnswerIn({Ok100})
  \/ StoreAddAnswerIn({"done"})
  \/ Collect
  \/ Filter
  \/ BindStart
  \/ BindAnswerIn({"ok"})
  \/ GenStart
  \/ RaceRead
  \/ Resume

SpecFlow == InitFlow /\ [][NextFlow]_vars

\* ------------------------------------------- repeated part CIDs in parts
\* uploads whose parts list names the same part CID twice
InitDup == InitWith(SourcesOver({<<"pA">>, <<"pA", "pA">>}, MaxUploads), 1..MaxK)

SpecDup == InitDup /\ [][Next]_vars

\* ------------------------------------------- a caller that may cancel
InitAbort ==
  /\ InitPipeline(SourcesOver(PartLists, MaxAbortUploads), 1..MaxAbortK)
  /\ mock = NoMock
  /\ signal = NotAborted
  /\ cli = NoCli
  /\ asm = NoAsm

NextAbort ==
  \/ Next
  \/ Abort
  \/ FetchAbort
  \/ TaskThrow

SpecAbort == InitAbort /\ [][NextAbort]_vars

\* ------------------------------------------ the migrate-to-w3up process
InitCli ==
  /\ InitCalled(SourcesOver(PartLists, MaxCliUploads), {Omitted})
  /\ mock = NoMock
  /\ signal = NotAborted
  /\ \E log \in BOOLEAN : cli = [NoCli EXCEPT !.main = TRUE, !.log = log]
  /\ asm = NoAsm

NextCli ==
  \/ SourcePull
  \/ \E s \in Piped : PipeRead(s)
  \/ \E s \in Piped : PipeClose(s)
  \/ FanOut
  \/ ParStart
  \/ FetchAnswerIn(FetchAnswers)
  \/ StoreAddAnswerIn(StoreAddAnswers)
  \/ PutAnswer
  \/ Collect
  \/ Filter
  \/ BindStart
  \/ BindAnswerIn(UploadAddAnswers)
  \/ GenStart
  \/ RaceWatcher
  \/ RaceRead
  \/ RaceReject
  \/ MainReady /\ Resume
  \/ MainEvent
  \/ MainExit
  \/ MainCrash
  \/ Rerun

SpecCli == InitCli /\ [][NextCli]_vars

\* ------------------------------ migrating twice to the same destination
InitIdem ==
  /\ InitPipeline(SourcesOver(PartLists, MaxIdemUploads), 1..MaxIdemK)
  /\ mock = [RecordingMock EXCEPT !.stateful = TRUE]
  /\ signal = NotAborted
  /\ cli = NoCli
  /\ asm = NoAsm

\* the ok receipts of store/add
IdemStoreAddAnswers == {"done", "upload"}

NextIdem ==
  \/ SourcePull
  \/ \E s \in Piped : PipeRead(s)
  \/ \E s \in Piped : PipeClose(s)
  \/ FanOut
  \/ ParStart
  \/ FetchAnswerIn({Ok100})
  \/ StoreAddAnswerIn(IdemStoreAddAnswers)
  \/ PutAnswer
  \/ Collect
  \/ Filter
  \/ BindStart
  \/ BindAnswerIn({"ok"})
  \/ GenStart
  \/ RaceWatcher
  \/ RaceRead
  \/ Resume
  \/ Again

SpecIdem == InitIdem /\ [][NextIdem]_vars

\* --------------------------------------- options with any concurrency
\* migrate() called with a concurrency below 1, with one of at least 1, or
\* with none
InitOpt ==
  /\ InitCalled(SourcesOver(PartLists, MaxOptUploads),
                Given(-1..MaxOptK) \cup {Omitted})
  /\ mock = NoMock
  /\ signal = NotAborted
  /\ cli = NoCli
  /\ asm = NoAsm

SpecOpt == InitOpt /\ [][Next]_vars

\* -------------------- the Assembler and the destination under watch
\* parts lists of one part, of two distinct parts and of one part named twice
AsmLists == PartLists \cup {<<"pA", "pA">>}

\* migrate() called without a concurrency
InitAsm ==
  /\ InitCalled(SourcesOver(AsmLists, MaxAsmUploads), {Omitted})
  /\ mock = [RecordingMock EXCEPT !.invocations = TRUE]
  /\ signal = NotAborted
  /\ cli = NoCli
  /\ asm = WatchedAsm

\* a part fetcher that throws or answers 200 with 100 bytes
AsmFetchAnswers == {FetchThrows, Ok100}

\* a destination that answers store/add with an error receipt or with an ok
\* receipt of status "done"
AsmStoreAddAnswers == {"error", "done"}

\* parts that fail at the fetch or at store/add, or migrate with status
\* "done"; upload/add answers ok
NextAsm ==
  \/ SourcePull
  \/ \E s \in Piped : PipeRead(s)
  \/ \E s \in Piped : PipeClose(s)
  \/ FanOut
  \/ ParStart
  \/ FetchAnswerIn(AsmFetchAnswers)
  \/ StoreAddAnswerIn(AsmStoreAddAnswers)
  \/ Collect
  \/ Filter
  \/ BindStart
  \/ BindAnswerIn({"ok"})
  \/ GenStart
  \/ RaceWatcher
  \/ RaceRead
  \/ Resume

SpecAsm == InitAsm /\ [][NextAsm]_vars

\* ------------------------------------- a source that repeats an upload
\* createEndlessUploads: every upload of the source is made from the same
\* line, so all carry the same cid; they are different objects
Repeating(sources) ==
  { [i \in 1..Len(src) |-> [src[i] EXCEPT !.cid = 1]] : src \in sources }

\* the fetcher throws or answers 200 with 100 bytes, store/add answers ok
\* with status "done" and upload/add answers ok
InitTwin ==
  /\ InitCalled(Repeating(SourcesOver(PartLists, MaxTwinUploads)), Given(1..MaxTwinK))
  /\ mock = NoMock
  /\ signal = NotAborted
  /\ cli = NoCli
  /\ asm = WatchedAsm

NextTwin ==
  \/ SourcePull
  \/ \E s \in Piped : PipeRead(s)
  \/ \E s \in Piped : PipeClose(s)
  \/ FanOut
  \/ ParStart
  \/ FetchAnswerIn(AsmFetchAnswers)
  \/ StoreAddAnswerIn({"done"})
  \/ Collect
  \/ Filter
  \/ BindStart
  \/ BindAnswerIn({"ok"})
  \/ GenStart
  \/ RaceWatcher
  \/ RaceRead
  \/ Resume

SpecTwin == InitTwin /\ [][NextTwin]_vars

\* --------------------------------- the responses of the part fetcher
\* the fetcher and the destination record what they are asked; the fetcher
\* throws or answers 200 with 100 bytes, the destination answers in any way
InitBody ==
  /\ InitCalled(SourcesOver(PartLists, MaxBodyUploads), {Omitted})
  /\ mock = [RecordingMock EXCEPT !.invocations = TRUE]
  /\ signal = NotAborted
  /\ cli = NoCli
  /\ asm = NoAsm

NextBody ==
  \/ SourcePull
  \/ \E s \in Piped : PipeRead(s)
  \/ \E s \in Piped : PipeClose(s)
  \/ FanOut
  \/ ParStart
  \/ FetchAnswerIn(AsmFetchAnswers)
  \/ StoreAddAnswerIn(StoreAddAnswers)
  \/ PutAnswer
  \/ Collect
  \/ Filter
  \/ BindStart
  \/ BindAnswerIn({"ok"})
  \/ GenStart
  \/ RaceWatcher
  \/ RaceRead
  \/ Resume

SpecBody == InitBody /\ [][NextBody]_vars

\* ----------------------------------------------- Fan-out under watch
\* every part migrates and every upload/add answers ok
InitFan ==
  /\ InitCalled(SourcesOver(PartLists, MaxFanUploads), Given(1..MaxFanK))
  /\ mock = NoMock
  /\ signal = NotAborted
  /\ cli = NoCli
  /\ asm = WatchedFan

SpecFan == InitFan /\ [][NextFlow]_vars

\* ------------------------------------------- the merge loop under watch
\* every part is fetched or the fetcher throws; store/add answers ok with
\* status "done" and upload/add answers ok
InitMerge ==
  /\ InitCalled(SourcesOver(OnePartLists, MaxMergeUploads), {Omitted})
  /\ mock = NoMock
  /\ signal = NotAborted
  /\ cli = NoCli
  /\ asm = WatchedMerge

NextMerge ==
  \/ SourcePull
  \/ \E s \in Piped : PipeRead(s)
  \/ \E s \in Piped : PipeClose(s)
  \/ FanOut
  \/ ParStart
  \/ FetchAnswerIn(AsmFetchAnswers)
  \/ StoreAddAnswerIn({"done"})
  \/ Collect
  \/ Filter
  \/ BindStart
  \/ BindAnswerIn({"ok"})
  \/ GenStart
  \/ RaceWatcher
  \/ RaceRead
  \/ Resume

SpecMerge == InitMerge /\ [][NextMerge]_vars

\* the consumer keeps calling next() and the watcher's setImmediate keeps
\* firing; nothing makes the destination answer
FairSpecMerge ==
  SpecMerge /\ WF_vars(GenStart \/ RaceWatcher \/ RaceRead \/ Resume)

\* ----------------------------------- migrate() with an onStoreAddReceipt
\* a callback that only counts its calls, and the one of the test that
\* throws unless the status is "done"
Callbacks == {Callback({}), Callback({"done"})}

\* every part is fetched with content-length 100, store/add answers in any
\* way, upload/add answers ok
InitCall ==
  /\ InitCalled(SourcesOver(PartLists, MaxCallUploads), WithCallback(Callbacks))
  /\ mock = RecordingMock
  /\ signal = NotAborted
  /\ cli = NoCli
  /\ asm = NoAsm

NextCall ==
  \/ SourcePull
  \/ \E s \in Piped : PipeRead(s)
  \/ \E s \in Piped : PipeClose(s)
  \/ FanOut
  \/ ParStart
  \/ FetchAnswerIn({Ok100})
  \/ StoreAddAnswerIn(StoreAddAnswers)
  \/ PutAnswer
  \/ Collect
  \/ Filter
  \/ BindStart
  \/ BindAnswerIn({"ok"})
  \/ GenStart
  \/ RaceWatcher
  \/ RaceRead
  \/ Resume

SpecCall == InitCall /\ [][NextCall]_vars

\* ------------------------------- a part fetcher with answers of any kind
\* content-length headers: none, "", "0", "12", "12a", "a", "-5"
FetchHeaders ==
  {NoHeader, Header(<<>>), Header(<<"0">>), Header(<<"1", "2">>),
   Header(<<"1", "2", "a">>), Header(<<"a">>), Header(<<"-", "5">>)}

\* the fetcher throws, answers 200 with one of these headers, or answers
\* 404 with or without a content-length
AnyFetchAnswers ==
  {FetchThrows} \cup { Response(200, h) : h \in FetchHeaders }
    \cup {Response(404, Header(<<"1", "2">>)), Response(404, NoHeader)}

\* store/add answers ok with status "done", upload/add answers ok
InitFetch ==
  /\ InitCalled(SourcesOver(OnePartLists, MaxFetchUploads), {Omitted})
  /\ mock = [RecordingMock EXCEPT !.invocations = TRUE]
  /\ signal = NotAborted
  /\ cli = NoCli
  /\ asm = NoAsm

NextFetch ==
  \/ SourcePull
  \/ \E s \in Piped : PipeRead(s)
  \/ \E s \in Piped : PipeClose(s)
  \/ FanOut
  \/ ParStart
  \/ FetchAnswerIn(AnyFetchAnswers)
  \/ StoreAddAnswerIn({"done"})
  \/ Collect
  \/ Filter
  \/ BindStart
  \/ BindAnswerIn({"ok"})
  \/ GenStart
  \/ RaceWatcher
  \/ RaceRead
  \/ Resume

SpecFetch == InitFetch /\ [][NextFetch]_vars

\* ------------------------- a destination that records what it is asked
InitPut ==
  /\ InitPipeline(SourcesOver(PartLists, MaxPutUploads), 1..MaxPutK)
  /\ mock = RecordingMock
  /\ signal = NotAborted
  /\ cli = NoCli
  /\ asm = NoAsm

SpecPut == InitPut /\ [][Next]_vars

\* ================================================================ claims
Outcomes == 1..Len(yielded)

\* C1: once migrate() has completed, every upload of the source has been
\* yielded as an outcome, whatever its number of distinct parts.
C1_EveryUploadGetsAnOutcome ==
  pc = "done" =>
    \A i \in 1..Len(source) : \E j \in Outcomes : yielded[j].upload.id = i

\* C2: migrate() never yields two outcomes for the same input upload, also
\* when its parts list names the same part CID more than once.
C2_AtMostOneOutcomePerUpload ==
  \A i, j \in Outcomes : i # j => yielded[i].upload.id # yielded[j].upload.id

\* C3: once migrate() has completed, the upload owning a part whose migration
\* failed has been yielded as an UploadMigrationFailure whose parts map holds
\* the failure of that part.
C3_PartFailureFailsItsUpload ==
  pc = "done" =>
    \A e \in partLog : \E j \in Outcomes :
      /\ IsFailure(yielded[j])
      /\ yielded[j].upload.id = e.id
      /\ e.part \in DOMAIN yielded[j].parts
      /\ HasCause(yielded[j].parts[e.part])

\* C4: migrate() does not throw when the upload/add invocation of an upload
\* answers with an error receipt or its transport fails.
C4_BindFailureDoesNotThrow == errored => pc # "threw"

C6_PartsMapKeysAreUploadParts ==
  \A j \in Outcomes :
    /\ DOMAIN yielded[j].parts = Range(yielded[j].upload.parts)
    /\ \A p \in DOMAIN yielded[j].parts :
         /\ yielded[j].parts[p].part = p
         /\ yielded[j].parts[p].upload = yielded[j].upload

C6_Witness ==
  /\ \E j \in Outcomes : IsSuccess(yielded[j])
  /\ \E j \in Outcomes : IsFailure(yielded[j])

\* C7: the part fetches started and not yet answered never outnumber the
\* concurrency.
FetchesInFlight == Cardinality({t \in tasks : t.pc = "fetch"})

C7_FetchesInFlightAtMostK == FetchesInFlight <= concurrency

C7_Witness == concurrency > 1 /\ FetchesInFlight = concurrency

RECURSIVE PartCount(_)
PartCount(uploads) ==
  IF uploads = <<>> THEN 0 ELSE Len(Head(uploads).parts) + PartCount(Tail(uploads))

\* C8: when the source has at least `concurrency` parts and no part fetch
\* answers, the pipeline gets to exactly `concurrency` part fetches in flight.
C8_ReachesKFetchesInFlight ==
  (PartCount(source) >= concurrency) ~> (FetchesInFlight = concurrency)

C8_Witness == concurrency >= 2 /\ parBlocked /\ FetchesInFlight = concurrency

\* C9: while no part fetch answers, at most concurrency + 2 uploads are
\* pulled from the Source.
C9_HangingPullsAtMostKPlus2 == pulledCount <= concurrency + 2

C9_Witness == pulledCount = concurrency + 2 /\ Len(source) > concurrency + 2

\* C10 as stated: the uploads pulled from the Source outnumber the outcomes
\* yielded by at most concurrency + 1.
C10_PulledAheadAtMostKPlus1 == pulledCount - Len(yielded) <= concurrency + 1

\* the uploads pulled from the Source of which a part has not left
\* PartMigrator: queued in the Source, in Fan-out or in Parallel, or being
\* migrated
UploadsAhead ==
  { u.id : u \in Range(rq["src"]) \cup Range(wq["fan"]) }
    \cup { p.upload.id : p \in Range(rq["fan"]) \cup Range(wq["par"]) }
    \cup { t.upload.id : t \in tasks }

\* C10 as amended: at most concurrency + 2 of the uploads pulled from the
\* Source have a part that PartMigrator has not finished.
C10_UploadsAheadAtMostKPlus2 == Cardinality(UploadsAhead) <= concurrency + 2

C10_Witness ==
  /\ Cardinality(UploadsAhead) = concurrency + 2
  /\ Len(yielded) > 0

\* the migratePart calls made so far, by upload and index in its parts list
PartCalls == { [id |-> r.id, n |-> r.n] : r \in mock.receipts } \cup BagToSet(mock.puts)

C12_AbortDuringFetchNeverThrows ==
  (\E c \in signal.inflight : c.pc = "fetch") => pc # "threw"

\* C13: no upload owning a part that was in migratePart when the signal fired
\* is yielded as an UploadMigrationSuccess, whichever step the part was in.
C13_CancelledPartsNeverSucceed ==
  \A j \in Outcomes : IsSuccess(yielded[j]) =>
    \A c \in signal.inflight : c.id # yielded[j].upload.id

\* C14: migrate() yields no outcome for an upload none of whose parts had
\* reached migratePart when the signal fired, whatever reason it fired with.
C14_NoOutcomeForUnstartedUploads ==
  \A j \in Outcomes : yielded[j].upload.id \notin signal.unstarted

\* C15: the uploads extracted from the log of a run are as many as the
\* failures of that run, each with its cid and a non-empty parts list, and
\* the run fed with them yields one outcome for each.
C15_RerunYieldsOneOutcomePerExtractedUpload ==
  cli.run = 2 =>
    /\ Len(source) = cli.extracted
    /\ \A i \in 1..Len(source) : Len(source[i].parts) >= 1
    /\ cli.exitCode # Running => Len(yielded) = Len(source)

\* C16: against a destination that answers "done" for the parts it holds, a
\* second run over the uploads already migrated sends no PUT, gets status
\* "done" for every part, and yields every upload as UploadMigrationSuccess.
C16_SecondRunOnlyVerifies ==
  cli.run = 2 =>
    /\ mock.puts = EmptyBag
    /\ \A r \in mock.receipts : r.status = "done"
    /\ \A j \in Outcomes :
         /\ IsSuccess(yielded[j])
         /\ \A p \in DOMAIN yielded[j].parts : yielded[j].parts[p].status = "done"
    /\ pc = "done" =>
         \A i \in 1..Len(source) : \E j \in Outcomes : yielded[j].upload.id = i

C16_Witness ==
  /\ cli.run = 2
  /\ pc = "done"
  /\ Len(source) = 2
  /\ Len(yielded) = 2

\* C17: the process exits with code 0 exactly when every outcome of the run
\* was a success, with code 1 when a failure was yielded, and not before its
\* loop has consumed every outcome.
C17_ExitCodeTellsFailures ==
  cli.exitCode # Running =>
    /\ cli.exitCode = 0 <=> \A j \in Outcomes : IsSuccess(yielded[j])
    /\ (\E j \in Outcomes : IsFailure(yielded[j])) => cli.exitCode = 1
    /\ cli.handled = Len(yielded)

\* the lines of an output that are outcomes
IsEventLine(line) == line.type \in {"UploadMigrationSuccess", "UploadMigrationFailure"}

IsSuccessLine(line) == line.type = "UploadMigrationSuccess"

\* C18: with a log path, every outcome consumed is one line of the log file,
\* in order, and none is missing when the process exits; stderr gets every
\* failure and no success; stdout gets nothing.
C18_LogFileGetsAllStderrGetsFailures ==
  (cli.main /\ cli.log) =>
    /\ cli.logFile = [j \in 1..cli.handled |-> EventLine(yielded[j])]
    /\ cli.exitCode # Running => Len(cli.logFile) = Len(yielded)
    /\ SelectSeq(cli.stderr, IsEventLine) = SelectSeq(cli.logFile, IsFailureLine)
    /\ SelectSeq(cli.stderr, IsSuccessLine) = <<>>
    /\ cli.stdout = <<>>

C18_Witness ==
  /\ cli.main /\ cli.log /\ cli.run = 1
  /\ cli.exitCode # Running
  /\ \E j \in Outcomes : IsSuccess(yielded[j])
  /\ \E j \in Outcomes : IsFailure(yielded[j])

\* C19: without a log path every outcome is a line of stdout or stderr, so
\* the process prints as many outcome lines as the source has uploads.
C19_EveryOutcomePrintedWithoutLog ==
  (cli.main /\ ~cli.log /\ cli.exitCode # Running) =>
    /\ Len(SelectSeq(cli.stdout \o cli.stderr, IsEventLine)) = Len(yielded)
    /\ pc = "done" =>
         Len(SelectSeq(cli.stdout \o cli.stderr, IsEventLine)) = Len(source)

\* C20: a migration called with a concurrency below 1 throws at its first
\* step, having taken no upload from the Source (what the Source produced on
\* its own is still in the Source's queue, and no read of it is pending) and
\* having issued no fetch and no invocation; a migration called without a
\* concurrency runs with concurrency 1, one part at a time.
C20_LowConcurrencyRejectedOmittedIsOne ==
  /\ (options # Omitted /\ ConcurrencyOf(options) < 1) =>
       /\ pc \in {"init", "threw"}
       /\ ~started
       /\ rr["src"] = 0
       /\ pulledCount = Len(rq["src"])
       /\ \A s \in Stages : wq[s] = <<>>
       /\ \A s \in Readables \ {"src"} : rq[s] = <<>>
       /\ tasks = {}
       /\ ~bindBusy
       /\ partLog = {}
       /\ yielded = <<>>
  /\ options = Omitted =>
       /\ concurrency = 1
       /\ Cardinality(tasks) <= 1

C20_Witness ==
  /\ options # Omitted
  /\ ConcurrencyOf(options) < 1
  /\ pc = "threw"
  /\ pulledCount = 1
  /\ Len(rq["src"]) = 1

\* the part CIDs of upload id among the first k part results given to the
\* Assembler
AsmGot(id, k) ==
  { asm.log[j].part : j \in { i \in 1..k : asm.log[i].upload.id = id } }

\* every part CID of upload u is among them
AsmCovers(u, k) == Range(u.parts) \subseteq AsmGot(u.id, k)

\* what the Assembler has emitted for upload id
AsmOut(id) == { j \in 1..Len(asm.out) : asm.out[j].item.upload.id = id }

\* C21: the Assembler has emitted for an upload exactly when every distinct
\* part CID of the upload has been given to it, and it emitted at the part
\* result that completed the upload, not before and not after.
C21_EmitsWhenAllPartsRecorded ==
  \A i \in 1..Len(source) :
    LET u == source[i]
    IN /\ AsmOut(u.id) # {} <=> AsmCovers(u, Len(asm.log))
       /\ \A j \in AsmOut(u.id) :
            /\ AsmCovers(u, asm.out[j].at)
            /\ ~AsmCovers(u, asm.out[j].at - 1)

\* the part results the Assembler has on record for upload id after the
\* first k results given to it: for each part CID the last result given
AsmRecorded(id, k) ==
  [p \in AsmGot(id, k) |->
     LET last == CHOOSE i \in 1..k :
                   /\ asm.log[i].upload.id = id /\ asm.log[i].part = p
                   /\ \A j \in (i + 1)..k :
                        ~(asm.log[j].upload.id = id /\ asm.log[j].part = p)
     IN asm.log[last]]

\* a part result that is a MigratedUploadOnePart: it carries the ok receipt
IsPartSuccess(result) == result.receipt = "ok"

\* C22: what the Assembler emits for an upload is a MigratedUploadParts if
\* and only if every part result on record is a success; otherwise it is an
\* UploadMigrationFailure with the results on record as its parts and the
\* cause 'Failed to migrate n/total upload parts', n the number of failed
\* entries (at least 1) and total the length of the upload's parts list.
C22_ReadyIffNoPartFailed ==
  \A j \in 1..Len(asm.out) :
    LET item == asm.out[j].item
        rec == AsmRecorded(item.upload.id, asm.out[j].at)
        failed == { p \in DOMAIN rec : ~IsPartSuccess(rec[p]) }
    IN /\ item.parts = rec
       /\ item.type \in {"MigratedUploadParts", "UploadMigrationFailure"}
       /\ item.type = "MigratedUploadParts" <=> failed = {}
       /\ item.type = "UploadMigrationFailure" =>
            /\ item.cause = "PartsFailed"
            /\ item.failed = Cardinality(failed)
            /\ item.failed >= 1
            /\ item.total = Len(item.upload.parts)

C22_Witness ==
  /\ \E j \in 1..Len(asm.out) :
       /\ asm.out[j].item.type = "UploadMigrationFailure"
       /\ asm.out[j].item.failed = 1
       /\ asm.out[j].item.total = 2
  /\ \E j \in 1..Len(asm.out) : asm.out[j].item.type = "MigratedUploadParts"

\* the part results given to the Assembler for upload id so far
AsmResults(id) == { i \in 1..Len(asm.log) : asm.log[i].upload.id = id }

\* C23: when the upload/add invocation for an upload is issued, the item at
\* the Binder is a MigratedUploadParts, every part CID of the upload has
\* yielded a part success and no part result of the upload is a failure.
C23_BindOnlyAfterAllPartsSucceeded ==
  [][(~bindBusy /\ bindBusy') =>
       LET item == Head(wq["bind"])
           u == item.upload
       IN /\ item.type = "MigratedUploadParts"
          /\ \A p \in Range(u.parts) :
               \E i \in AsmResults(u.id) :
                 asm.log[i].part = p /\ IsPartSuccess(asm.log[i])
          /\ \A i \in AsmResults(u.id) : IsPartSuccess(asm.log[i])]_vars

\* the store/add invocations the destination has received for an entry of
\* a parts list
StoreAddsFor(id, n) ==
  { x \in BagToSet(mock.storeAdds) : x.id = id /\ x.n = n }

RECURSIVE BagCount(_, _)
BagCount(B, S) ==
  IF S = {} THEN 0
  ELSE LET x == CHOOSE y \in S : TRUE
       IN CopiesIn(x, B) + BagCount(B, S \ {x})

\* the number of upload/add invocations the destination has received for u
UploadAddsFor(u) ==
  BagCount(mock.uploadAdds,
           { x \in BagToSet(mock.uploadAdds) : x.root = LinkParse(u.cid) })

\* C24: when a run without cancellation has completed, the destination has
\* received one store/add invocation for each entry of each upload's parts
\* list, and for each upload one upload/add invocation if all its parts
\* succeeded and none otherwise.
C24_OneStoreAddPerPartOneUploadAddPerUpload ==
  (mock.invocations /\ pc = "done") =>
    \A i \in 1..Len(source) :
      LET u == source[i]
          allOk == \A p \in Range(u.parts) : [id |-> u.id, part |-> p] \notin partLog
      IN /\ \A n \in 1..Len(u.parts) :
              BagCount(mock.storeAdds, StoreAddsFor(u.id, n)) = 1
         /\ UploadAddsFor(u) = (IF allOk THEN 1 ELSE 0)

\* the links of a parts list, one per entry, in the order of the list
LinksOf(parts) == [j \in 1..Len(parts) |-> [hash |-> parts[j], version |-> 1]]

\* C25: every upload/add invocation the destination receives is for an
\* upload of the source, with root the link of the upload's CID and shards
\* the links of upload.parts, entry by entry in the same order; and this is
\* what the Binder makes of any upload of the source.
C25_UploadAddCarriesRootAndShardsInOrder ==
  /\ \A nb \in BagToSet(mock.uploadAdds) :
       \E i \in 1..Len(source) :
         /\ nb.root = [hash |-> source[i].cid, version |-> 1]
         /\ Len(nb.shards) = Len(source[i].parts)
         /\ nb.shards = LinksOf(source[i].parts)
  /\ \A i \in 1..Len(source) :
       UploadAddNb([upload |-> source[i]]).shards = LinksOf(source[i].parts)

C25_Witness ==
  \E nb \in BagToSet(mock.uploadAdds) :
    /\ Len(nb.shards) = 2
    /\ CopiesIn(nb, mock.uploadAdds) = 1
    /\ ~bindBusy

\* C26: the map the Assembler works on holds an accumulator only for an
\* upload of which a part result has arrived and for which nothing has been
\* emitted; no part result of an upload is taken into an accumulator after
\* the upload's outcome was emitted; and the map is empty once the run has
\* completed.
C26_AccumulatorsOnlyForOpenUploads ==
  /\ \A c \in DOMAIN asm.map :
       /\ \E i \in 1..Len(asm.log) : asm.log[i].upload.cid = c
       /\ \A j \in 1..Len(asm.out) : asm.out[j].item.upload.cid # c
  /\ \A i \in 1..Len(asm.log) :
       \A j \in 1..Len(asm.out) :
         asm.out[j].item.upload.cid = asm.log[i].upload.cid => asm.out[j].at >= i
  /\ pc = "done" => asm.map = EmptyMap

\* a header value that is a decimal integer: digits and nothing else
IsDecimalInteger(chars) ==
  chars # <<>> /\ \A i \in 1..Len(chars) : IsDigit(chars[i])

\* a content-length header that is present and a positive decimal integer
Usable(header) ==
  /\ header # NoHeader
  /\ LET chars == CHOOSE c \in header : TRUE
     IN IsDecimalInteger(chars) /\ DecimalValue(chars) > 0

\* C27: a part whose response has a content-length that is absent, zero,
\* not a decimal integer or negative is a part failure and no store/add is
\* invoked for it; for any other response the store/add invocation carries
\* the decimal value of the header as its size.
C27_SizeIsContentLengthOrPartFails ==
  \A f \in mock.fetches :
    ~f.response.threw =>
      LET adds == StoreAddsFor(f.id, f.n)
          part == source[f.id].parts[f.n]
      IN IF Usable(f.response.contentLength)
           THEN \A x \in adds :
                  x.size = DecimalValue(CHOOSE c \in f.response.contentLength : TRUE)
           ELSE /\ adds = {}
                /\ [id |-> f.id, part |-> part] \in partLog

\* C28: a part whose fetch is answered with a status outside 200..299 is a
\* part failure and no store/add is invoked for it.
C28_NoStoreAddAfterBadFetchStatus ==
  \A f \in mock.fetches :
    (~f.response.threw /\ f.response.status \notin 200..299) =>
      /\ StoreAddsFor(f.id, f.n) = {}
      /\ [id |-> f.id, part |-> source[f.id].parts[f.n]] \in partLog

\* the entries of the parts lists of the source, by upload and index
SourceParts ==
  UNION { { [id |-> i, n |-> n] : n \in 1..Len(source[i].parts) } : i \in 1..Len(source) }

\* an entry whose migratePart call has returned a result or is known to the
\* destination
Attempted(k) ==
  \/ k \in PartCalls
  \/ [id |-> k.id, part |-> source[k.id].parts[k.n]] \in partLog

\* C29: a part whose store/add receipt is ok with a status that is neither
\* "done" nor "upload" is a part failure and gets no PUT; once migrate() has
\* completed its upload has been yielded as an UploadMigrationFailure and
\* every other part of the source has been attempted.
C29_UnknownStatusFailsPartOnly ==
  \A r \in mock.receipts :
    r.status \notin {"error", "done", "upload"} =>
      /\ [id |-> r.id, part |-> source[r.id].parts[r.n]] \in partLog
      /\ CopiesIn([id |-> r.id, n |-> r.n], mock.puts) = 0
      /\ pc = "done" =>
           /\ \E j \in Outcomes :
                IsFailure(yielded[j]) /\ yielded[j].upload.id = r.id
           /\ \A k \in SourceParts : Attempted(k)

\* the calls of onStoreAddReceipt made for an entry of a parts list
CallsFor(id, n) == { c \in BagToSet(mock.calls) : c.id = id /\ c.n = n }

\* C30: onStoreAddReceipt is called exactly once for every store/add receipt
\* and never without one, before any PUT of the part; when it throws the part
\* gets no PUT and is a part failure, migrate() does not throw, and once
\* migrate() has completed the upload has been yielded as an
\* UploadMigrationFailure.
C30_CallbackOncePerReceiptThrowFailsPart ==
  /\ \A r \in mock.receipts :
       /\ Cardinality(CallsFor(r.id, r.n)) = 1
       /\ \A c \in CallsFor(r.id, r.n) :
            c.status = r.status /\ CopiesIn(c, mock.calls) = 1
  /\ \A c \in BagToSet(mock.calls) :
       /\ [id |-> c.id, n |-> c.n, status |-> c.status] \in mock.receipts
       /\ c.puts = 0
       /\ c.threw =>
            /\ CopiesIn([id |-> c.id, n |-> c.n], mock.puts) = 0
            /\ [id |-> c.id, part |-> source[c.id].parts[c.n]] \in partLog
            /\ pc # "threw"
            /\ pc = "done" =>
                 \E j \in Outcomes :
                   IsFailure(yielded[j]) /\ yielded[j].upload.id = c.id

\* where an item is in the sequence of the items that arrived on a channel
Position(channel, item) ==
  CHOOSE i \in 0..Len(channel) :
    IF \E j \in 1..Len(channel) : channel[j] = item
      THEN i > 0 /\ channel[i] = item
      ELSE i = 0

\* the yielded items of one type come in the order they arrived in
InArrivalOrder(channel, type) ==
  \A i, j \in Outcomes :
    (i < j /\ yielded[i].type = type /\ yielded[j].type = type) =>
      Position(channel, yielded[i]) < Position(channel, yielded[j])

\* C31: migrate() yields the UploadMigrationSuccess items in the order the
\* Binder produced them and the UploadMigrationFailure items in the order
\* the Assembler produced them.
C31_YieldsEachChannelInOrder ==
  /\ InArrivalOrder(asm.bound, "UploadMigrationSuccess")
  /\ InArrivalOrder(asm.failed, "UploadMigrationFailure")

\* the items of a sequence, with their repetitions
RECURSIVE BagOfSeq(_)
BagOfSeq(seq) ==
  IF seq = <<>> THEN EmptyBag ELSE SetToBag({Head(seq)}) (+) BagOfSeq(Tail(seq))

\* the items that have arrived at the merge loop, from either channel
Arrived == BagOfSeq(asm.failed) (+) BagOfSeq(asm.bound)

\* where an arrived item can be: on `failures`, on `queue`, or yielded
Kept == BagOfSeq(failures) (+) BagOfSeq(queue) (+) BagOfSeq(yielded)

\* C32: every item that has arrived at the merge loop is in exactly one of
\* `failures`, `queue` and the yielded items, once, and nothing else is; when
\* migrate() has completed the Binder's stream is closed, `failures` and
\* `queue` are empty, and so every arrived item has been yielded exactly once.
C32_EveryArrivedItemYieldedOnce ==
  /\ Kept = Arrived
  /\ \A item \in BagToSet(Arrived) : CopiesIn(item, Arrived) = 1
  /\ pc = "done" =>
       /\ rClosed["bind"] /\ resultsDone
       /\ failures = <<>> /\ queue = <<>>
       /\ BagOfSeq(yielded) = Arrived

C32_Witness ==
  /\ pc = "done"
  /\ Len(asm.failed) >= 1
  /\ Len(asm.bound) >= 2

\* C33: a failure the Assembler has produced is eventually yielded to a
\* consumer that keeps pulling, whether or not the Binder's stream ever
\* answers the pending read.
C33_QueuedFailureIsDelivered ==
  \A i \in 1..MaxMergeUploads :
    (Len(asm.failed) >= i) ~>
      (Len(asm.failed) >= i /\ asm.failed[i] \in Range(yielded))

\* a failure has been yielded while an upload/add invocation is unanswered
\* and the read of the Binder's stream is pending
C33_Witness ==
  /\ bindBusy
  /\ rr["bind"] > 0
  /\ \E j \in Outcomes : IsFailure(yielded[j])

\* the race of the turn has been settled by the read of the turn
SettledByRead == pc = "race" /\ ~errored /\ rr["bind"] = 0

\* C34: whenever the race has been settled by the read of the Binder's
\* stream, `queue` is not empty or the stream has ended, so that the
\* 'unexpected empty queue after race' error is never thrown; the watcher
\* settles the race only with a non-empty queue.
C34_NeverEmptyQueueAfterRace ==
  SettledByRead => (queue # <<>> \/ resultsDone)

\* the read has settled the race once with a result and once with the end
\* of the stream
C34_Witness ==
  /\ SettledByRead
  /\ queue = <<>>
  /\ resultsDone
  /\ \E j \in Outcomes : IsSuccess(yielded[j])

\* the parts of the first m uploads of the source, upload after upload
RECURSIVE PartsOfFirst(_)
PartsOfFirst(m) ==
  IF m = 0
    THEN <<>>
    ELSE PartsOfFirst(m - 1) \o
           [n \in 1..Len(source[m].parts) |->
              [upload |-> source[m], part |-> source[m].parts[n], n |-> n]]

\* C35: what Fan-out has emitted is, for some m, the parts of the first m
\* uploads of the source: the uploads in the order of the source, each
\* with one item for every entry of its parts list in the order of the list,
\* and all the items of an upload before any item of the next.
C35_FanOutInSourceAndPartsOrder ==
  \E m \in 0..Len(source) : asm.fanned = PartsOfFirst(m)

C35_Witness ==
  /\ Len(source) = 2
  /\ Len(asm.fanned) = 4

\* the emitted parts that the part stage has not pulled yet: they are in the
\* queue of Fan-out's readable side, or written to Parallel and not started
NotPulled ==
  Range(rq["fan"]) \cup (IF parBlocked THEN {} ELSE Range(wq["par"]))

\* C36: no part that Fan-out emitted before the parts of the upload it
\* emitted last is still to be pulled by the part stage.
C36_NextUploadOnlyAfterPartsPulled ==
  \A i \in 1..Len(asm.fanned) :
    asm.fanned[i].upload.id # asm.fanned[Len(asm.fanned)].upload.id =>
      asm.fanned[i] \notin NotPulled

\* the parts of the second upload are emitted and not all pulled
C36_Witness ==
  /\ \E i \in 1..Len(asm.fanned) : asm.fanned[i].upload.id = 2
  /\ NotPulled # {}

\* the migratePart calls that are at the given step after this step of the
\* pipeline and were not before it
Entering(step) == { t \in tasks' : t.pc = step } \ tasks

\* C37: once the signal has fired no step of the pipeline starts a store/add
\* invocation, a PUT or an upload/add invocation.
C37_NothingStartedAfterAbort ==
  [][Aborted =>
       /\ Entering("add") = {}
       /\ Entering("put") = {}
       /\ bindBusy' => bindBusy]_vars

\* the body of the response fetched for an entry has been handed to a PUT
\* request as its body; nothing else in migratePart reads or cancels it
BodyUsed(id, n) == CopiesIn([id |-> id, n |-> n], mock.puts) > 0

\* the migratePart call for an entry is in flight
InFlight(id, n) == \E t \in tasks : t.upload.id = id /\ t.n = n

\* C38: once the migratePart call of a part has returned, the body of the
\* response the fetcher gave for the part has been consumed or released.
C38_BodyUsedWhenPartReturns ==
  \A f \in mock.fetches :
    (~f.response.threw /\ ~InFlight(f.id, f.n)) => BodyUsed(f.id, f.n)

\* C39: once a stage has failed with an error that is not turned into a
\* failure item (the result stream is errored), every further step leaves the
\* signal aborted and starts no store/add invocation and no PUT, migrate()
\* does not complete normally, and after it has thrown nothing is yielded.
C39_StageErrorCancelsAndThrowsOnce ==
  [][errored =>
       /\ Aborted'
       /\ Entering("add") = {}
       /\ Entering("put") = {}
       /\ pc' # "done"
       /\ pc = "threw" => (yielded' = yielded /\ pc' = "threw")]_vars

\* the part results of a parts map all belong to this upload
OwnParts(parts, id) == \A p \in DOMAIN parts : parts[p].upload.id = id

\* C40: with a source whose uploads all carry the same cid, the part results
\* in an outcome and in an accumulator all belong to one upload, that of the
\* outcome, and once migrate() has completed every upload of the source has
\* exactly one outcome.
C40_SameCidUploadsKeptApart ==
  /\ \A j \in Outcomes : OwnParts(yielded[j].parts, yielded[j].upload.id)
  /\ \A c \in DOMAIN asm.map :
       \E i \in 1..Len(source) : OwnParts(asm.map[c], i)
  /\ pc = "done" =>
       \A i \in 1..Len(source) :
         Cardinality({ j \in Outcomes : yielded[j].upload.id = i }) = 1

====
